---- MODULE Spec2Model ----
(***************************************************************************)
(* Model of src/src/App.tsx (learnbysongs): the frequency-based extraction *)
(* pipeline (normalizeWord, estimateSyllables, estimateDifficultyScore,    *)
(* toDifficultyBand, splitIntoExamples, extractLearningItems) and the      *)
(* App component's handleSubmit run (validation, extraction, translation). *)
(*                                                                         *)
(* Text is a sequence of one-character strings.  Difficulty scores are     *)
(* kept in tenths (4.5 is 45), the unit Math.round(score * 10) / 10 works  *)
(* in; thresholds stay whole numbers as in LEVEL_DIFFICULTY_THRESHOLD.     *)
(***************************************************************************)
EXTENDS Integers, Sequences, FiniteSets, TLC

VARIABLES
  \* a call of extractLearningItems on its own
  exLyrics,        \* the lyrics argument
  exLevel,         \* the level argument
  exPieces,        \* number of fragments the lyrics argument was built from
  exPc,            \* "editing" before the call, "returned" after it
  exReturn,        \* what the call returned (items and the log summary)
  frames,          \* two calls of extractLearningItems in progress at once:
                   \* per call its arguments, locals and return value
  \* a call of estimateDifficultyScore from the loop body, on its own
  scRaw,           \* the raw token
  scPieces,        \* number of fragments the raw token was built from
  scPc,            \* "editing" before the call, "scored" after it
  scReturn,        \* the canonical word w and the score returned for it
  \* the state of the App component (useState)
  lyrics, level, nativeLang, customLangCode, analysisMethod, apiKey,
  learningItems, isProcessing, isTranslating, error,
  \* the handleSubmit run in progress
  pc,              \* "idle", "analyzing" (awaiting analyzeWithLLM),
                   \* "translating" (awaiting Promise.all)
  runItems,        \* the run's local `items`
  settled,         \* per item: "pending", or how its translateText call ended
  translatedItems, \* per item: what its map callback returned, once settled
  outcome,         \* how the latest handleSubmit call went so far
  calls            \* what the latest handleSubmit call has called, counted

scVars == <<scRaw, scPieces, scPc, scReturn>>

exVars == <<exLyrics, exLevel, exPieces, exPc, exReturn, frames,
            scRaw, scPieces, scPc, scReturn>>

formVars == <<lyrics, level, nativeLang, customLangCode, analysisMethod, apiKey>>

runVars == <<pc, runItems, settled, translatedItems, outcome, calls>>

appVars == <<lyrics, level, nativeLang, customLangCode, analysisMethod, apiKey,
             learningItems, isProcessing, isTranslating, error,
             pc, runItems, settled, translatedItems, outcome, calls>>

vars == <<exLyrics, exLevel, exPieces, exPc, exReturn, frames,
          scRaw, scPieces, scPc, scReturn,
          lyrics, level, nativeLang, customLangCode, analysisMethod, apiKey,
          learningItems, isProcessing, isTranslating, error,
          pc, runItems, settled, translatedItems, outcome, calls>>

----------------------------------------------------------------------------
(* Characters *)

LOWER == <<"a","b","c","d","e","f","g","h","i","j","k","l","m","n","o","p","q","r","s","t","u","v","w","x","y","z">>

UPPER == <<"A","B","C","D","E","F","G","H","I","J","K","L","M","N","O","P","Q","R","S","T","U","V","W","X","Y","Z">>

DIGITS == {"0","1","2","3","4","5","6","7","8","9"}

LowerSet == {LOWER[i] : i \in DOMAIN LOWER}

UpperSet == {UPPER[i] : i \in DOMAIN UPPER}

\* \s for the characters the model's texts use
WHITESPACE == {" ", "\t", "\n", "\r"}

VOWELS == {"a", "e", "i", "o", "u", "y"}

\* String.prototype.toLowerCase
ToLowerCase(s) ==
  [i \in DOMAIN s |->
     IF s[i] \in UpperSet THEN LOWER[CHOOSE k \in DOMAIN UPPER : UPPER[k] = s[i]] ELSE s[i]]

\* s.endsWith(suffix), the meaning of /(...)$/
EndsWith(s, suffix) ==
  /\ Len(suffix) <= Len(s)
  /\ SubSeq(s, Len(s) - Len(suffix) + 1, Len(s)) = suffix

\* s.includes(part), the meaning of an unanchored /(...)/
Includes(s, part) ==
  \E i \in 1..(Len(s) - Len(part) + 1) : SubSeq(s, i, i + Len(part) - 1) = part

\* String.prototype.split on a regex of the form /[class]+/ : the segments
\* between maximal runs of separator characters, empty first and last
\* segments included.
SplitOn(text, seps) ==
  LET n        == Len(text)
      starts   == SelectSeq([i \in 1..n |-> i],
                            LAMBDA i : text[i] \notin seps /\ (i = 1 \/ text[i-1] \in seps))
      ends     == {i \in 1..n : text[i] \notin seps /\ (i = n \/ text[i+1] \in seps)}
      \* the run of non-separator characters that starts at a
      runAt(a) == SubSeq(text, a, CHOOSE b \in ends : b >= a /\ \A c \in ends : c >= a => b <= c)
      runs     == [k \in DOMAIN starts |-> runAt(starts[k])]
      first    == IF n = 0 \/ text[1] \in seps THEN << <<>> >> ELSE <<>>
      last     == IF n > 0 /\ text[n] \in seps THEN << <<>> >> ELSE <<>>
  IN first \o runs \o last

\* String.prototype.trim
Trim(s) ==
  LET keep == {i \in DOMAIN s : s[i] \notin WHITESPACE}
  IN IF keep = {} THEN <<>>
     ELSE SubSeq(s, CHOOSE i \in keep : \A j \in keep : i <= j,
                    CHOOSE i \in keep : \A j \in keep : i >= j)

----------------------------------------------------------------------------
(* Static tables *)

STOP_WORDS == {
  <<"i">>, <<"y","o","u">>, <<"h","e">>, <<"s","h","e">>, <<"i","t">>, <<"w","e">>,
  <<"t","h","e","y">>, <<"m","e">>, <<"h","i","m">>, <<"h","e","r">>, <<"t","h","e","m">>,
  <<"m","y">>, <<"y","o","u","r">>, <<"h","i","s">>, <<"t","h","e","i","r">>, <<"o","u","r">>,
  <<"a","n","d">>, <<"o","r">>, <<"b","u","t">>, <<"s","o">>, <<"b","e","c","a","u","s","e">>,
  <<"i","f">>, <<"w","h","e","n">>, <<"w","h","i","l","e">>, <<"i","n">>, <<"o","n">>, <<"a","t">>,
  <<"w","i","t","h">>, <<"f","o","r">>, <<"f","r","o","m">>, <<"t","o">>, <<"o","f">>, <<"a">>,
  <<"a","n">>, <<"t","h","e">>, <<"i","s">>, <<"a","m">>, <<"a","r","e">>, <<"w","a","s">>,
  <<"w","e","r","e">>, <<"b","e">>, <<"b","e","e","n">>, <<"h","a","v","e">>, <<"h","a","s">>,
  <<"h","a","d">>, <<"d","o">>, <<"d","o","e","s">>, <<"d","i","d">>, <<"t","h","i","s">>,
  <<"t","h","a","t">>, <<"t","h","e","s","e">>, <<"t","h","o","s","e">>, <<"h","e","r","e">>,
  <<"t","h","e","r","e">>, <<"u","p">>, <<"d","o","w","n">>, <<"o","u","t">>, <<"i","n","t","o">>,
  <<"o","v","e","r">>, <<"u","n","d","e","r">>, <<"a","g","a","i","n">>, <<"v","e","r","y">>,
  <<"j","u","s","t">>, <<"t","h","e","n">>, <<"n","o","w">>, <<"n","o","t">>,
  <<"d","o","n","'","t">>, <<"d","o","e","s","n","'","t">>, <<"d","i","d","n","'","t">> }

Levels == {"A1", "A2", "B1", "B2", "C1", "C2"}

LEVEL_DIFFICULTY_THRESHOLD ==
  [l \in Levels |->
     CASE l = "A1" -> 2 [] l = "A2" -> 3 [] l = "B1" -> 4
       [] l = "B2" -> 5 [] l = "C1" -> 6 [] l = "C2" -> 7]

\* the alternatives of the end-anchored suffix regex
SUFFIXES == {
  <<"t","i","o","n">>, <<"s","i","o","n">>, <<"m","e","n","t">>, <<"l","e","s","s">>,
  <<"s","h","i","p">>, <<"a","n","c","e">>, <<"e","n","c","e">>, <<"i","o","u","s">>,
  <<"e","o","u","s">>, <<"t","i","v","e">>, <<"w","a","r","d">>, <<"w","i","s","e">>,
  <<"i","s","m">>, <<"i","t","y">>, <<"n","e","s","s">> }

\* the alternatives of the letter-cluster regex
CLUSTERS == {
  <<"p","h">>, <<"q","u","e">>, <<"r","h">>, <<"z","h">>, <<"c","h">>, <<"s","h">>,
  <<"x">>, <<"z">> }

\* The word -> tier associations of ./wordFrequency (tiers 1..4; the module
\* is not part of the sources, the entries are the common words the model's
\* texts use).
FREQUENCY_TABLE == {
  << <<"a","l","l">>, 1 >>,
  << <<"f","a","r">>, 1 >>,
  << <<"a","w","a","y">>, 1 >>,
  << <<"s","e","e","m","e","d">>, 2 >>,
  << <<"y","e","s","t","e","r","d","a","y">>, 2 >>,
  << <<"w","i","s","e">>, 2 >>,
  << <<"r","e","l","a","t","i","o","n","s","h","i","p">>, 2 >>,
  << <<"t","r","o","u","b","l","e","s">>, 3 >>,
  << <<"s","h","y">>, 3 >>,
  << <<"t","h","e">>, 1 >>,
  << <<"m","y">>, 1 >>,
  << <<"s","o">>, 1 >> }

\* getWordFrequencyTier: table lookup, any word not found is tier 5
getWordFrequencyTier(word) ==
  IF \E e \in FREQUENCY_TABLE : e[1] = word
  THEN (CHOOSE e \in FREQUENCY_TABLE : e[1] = word)[2]
  ELSE 5

----------------------------------------------------------------------------
(* The scoring functions *)

\* the character class [a-z'] under the i flag
IsWordChar(c) == c \in LowerSet \/ c \in UpperSet \/ c = "'"

\* raw.toLowerCase().replace(/^[^a-z']+|[^a-z']+$/gi, '')
normalizeWord(raw) ==
  LET low  == ToLowerCase(raw)
      keep == {i \in DOMAIN low : IsWordChar(low[i])}
  IN IF keep = {} THEN <<>>
     ELSE SubSeq(low, CHOOSE i \in keep : \A j \in keep : i <= j,
                      CHOOSE i \in keep : \A j \in keep : i >= j)

estimateSyllables(word) ==
  LET cleaned == SelectSeq(ToLowerCase(word), LAMBDA c : c \in LowerSet)
      \* matches of /[aeiouy]+/g : the starts of the maximal vowel runs
      matches == {i \in DOMAIN cleaned :
                    /\ cleaned[i] \in VOWELS
                    /\ (i = 1 \/ cleaned[i-1] \notin VOWELS)}
  IN IF cleaned = <<>> THEN 0
     ELSE IF matches = {} THEN 1
     ELSE IF Cardinality(matches) > 1 THEN Cardinality(matches) ELSE 1

\* Result in tenths.  Every increment is a multiple of 0.5, so score * 10 is
\* already a whole number and Math.round leaves it as it is.
estimateDifficultyScore(word) ==
  LET frequencyTier == getWordFrequencyTier(word)
      len           == Len(word)
      syllables     == estimateSyllables(word)
      low           == ToLowerCase(word)
  IN   10 * (5 - frequencyTier)
     + (IF len >= 10 THEN 10 ELSE 0)
     + (IF len >= 12 THEN 10 ELSE 0)
     + (IF syllables >= 4 THEN 10 ELSE 0)
     + (IF syllables >= 5 THEN 10 ELSE 0)
     + (IF \E s \in SUFFIXES : EndsWith(low, s) THEN 10 ELSE 0)
     + (IF \E c \in CLUSTERS : Includes(low, c) THEN 5 ELSE 0)

\* toDifficultyBand with the upper edge of 'stretch' left out (< for <=)
toDifficultyBand_Strict(score, threshold) ==
  IF score <= 10 * threshold THEN "comfortable"
  ELSE IF score < 10 * (threshold + 2) THEN "stretch"
  ELSE "challenging"

\* score in tenths, threshold whole
toDifficultyBand(score, threshold) ==
  IF score <= 10 * threshold THEN "comfortable"
  ELSE IF score <= 10 * (threshold + 2) THEN "stretch"
  ELSE "challenging"

\* text.split(/[\n\.!?]+/).map((s) => s.trim()).filter(Boolean)
splitIntoExamples(text) ==
  LET parts   == SplitOn(text, {"\n", ".", "!", "?"})
      trimmed == [i \in DOMAIN parts |-> Trim(parts[i])]
  IN SelectSeq(trimmed, LAMBDA s : s # <<>>)

----------------------------------------------------------------------------
(* extractLearningItems *)

\* logData.summary as initialised
EmptySummary ==
  [totalWords |-> 0, stopWords |-> 0, tooEasy |-> 0, containsDigits |-> 0,
   empty |-> 0, included |-> 0]

\* ex.split(/\s+/)
TokensOf(ex) == SplitOn(ex, WHITESPACE)

\* ClassifyToken looking the raw token, not its normalized form, up in
\* STOP_WORDS
ClassifyToken_RawStop(raw, threshold) ==
  LET w == normalizeWord(raw) IN
  IF w = <<>> THEN "empty"
  ELSE IF raw \in STOP_WORDS THEN "stopWords"
  ELSE IF \E i \in DOMAIN w : w[i] \in DIGITS THEN "containsDigits"
  ELSE IF estimateDifficultyScore(w) <= 10 * threshold THEN "tooEasy"
  ELSE "included"

\* ClassifyToken admitting a score equal to the threshold (< for <=)
ClassifyToken_Lt(raw, threshold) ==
  LET w == normalizeWord(raw) IN
  IF w = <<>> THEN "empty"
  ELSE IF w \in STOP_WORDS THEN "stopWords"
  ELSE IF \E i \in DOMAIN w : w[i] \in DIGITS THEN "containsDigits"
  ELSE IF estimateDifficultyScore(w) < 10 * threshold THEN "tooEasy"
  ELSE "included"

\* The fate of one raw token: the chain of filters of the loop body, in the
\* order of the code.
ClassifyToken(raw, threshold) ==
  LET w == normalizeWord(raw) IN
  IF w = <<>> THEN "empty"
  ELSE IF w \in STOP_WORDS THEN "stopWords"
  ELSE IF \E i \in DOMAIN w : w[i] \in DIGITS THEN "containsDigits"
  ELSE IF estimateDifficultyScore(w) <= 10 * threshold THEN "tooEasy"
  ELSE "included"

\* RecordWord letting a later occurrence overwrite the example
RecordWord_LastExample(wordStats, w, score, ex) ==
  IF \E i \in DOMAIN wordStats : wordStats[i].word = w
  THEN LET cur == CHOOSE i \in DOMAIN wordStats : wordStats[i].word = w
       IN [wordStats EXCEPT ![cur].count = @ + 1, ![cur].example = ex]
  ELSE Append(wordStats, [word |-> w, count |-> 1, score |-> score, example |-> ex])

\* wordStats.get(w) / current.count += 1 / wordStats.set(w, {...}).
\* wordStats is the Map as the sequence of its entries in insertion order.
RecordWord(wordStats, w, score, ex) ==
  IF \E i \in DOMAIN wordStats : wordStats[i].word = w
  THEN LET current == CHOOSE i \in DOMAIN wordStats : wordStats[i].word = w
       IN [wordStats EXCEPT ![current].count = @ + 1]
  ELSE Append(wordStats, [word |-> w, count |-> 1, score |-> score, example |-> ex])

\* One iteration of the inner loop, for raw token raw of example ex
VisitToken(acc, raw, ex, threshold) ==
  LET fate == ClassifyToken(raw, threshold)
      w    == normalizeWord(raw)
      sum  == [acc.summary EXCEPT !.totalWords = @ + 1, ![fate] = @ + 1]
  IN [wordStats |-> IF fate = "included"
                    THEN RecordWord(acc.wordStats, w, estimateDifficultyScore(w), ex)
                    ELSE acc.wordStats,
      summary   |-> sum]

\* CompareItems without the tie-break on count
CompareItems_ScoreOnly(x, y) == y.difficultyScore - x.difficultyScore

\* The comparator of items.sort: negative when a goes first
CompareItems(a, b) ==
  LET byScore == b.difficultyScore - a.difficultyScore
  IN IF byScore # 0 THEN byScore ELSE b.count - a.count

\* Array.prototype.sort is stable: each element goes after the last one
\* that the comparator does not place behind it.
SortItems(items) ==
  LET S[k \in 0..Len(items)] ==
        IF k = 0 THEN <<>>
        ELSE LET x      == items[k]
                 prev   == S[k-1]
                 before == {i \in DOMAIN prev : CompareItems(prev[i], x) <= 0}
                 p      == IF before = {} THEN 0
                           ELSE CHOOSE i \in before : \A j \in before : j <= i
             IN SubSeq(prev, 1, p) \o <<x>> \o SubSeq(prev, p + 1, Len(prev))
  IN S[Len(items)]

\* Array.from(wordStats.entries()).map(...)
ToItem(info, threshold) ==
  [id              |-> info.word,
   word            |-> info.word,
   difficultyScore |-> info.score,
   difficultyBand  |-> toDifficultyBand(info.score, threshold),
   count           |-> info.count,
   example         |-> info.example]

\* The (raw token, example) pairs in the order the nested loops visit them
Visits(text) ==
  LET examples == splitIntoExamples(text)
      G[i \in 0..Len(examples)] ==
        IF i = 0 THEN <<>>
        ELSE LET ex       == examples[i]
                 rawWords == TokensOf(ex)
             IN G[i-1] \o [j \in DOMAIN rawWords |-> [raw |-> rawWords[j], ex |-> ex]]
  IN G[Len(examples)]

RECURSIVE VisitRange(_, _, _, _, _)
\* The loop iterations for visits[lo..hi], in order, starting from acc.  The
\* range is halved so that the evaluation stays shallow; the first half is
\* evaluated (its totalWords read) before the second half starts from it.
VisitRange(acc, visits, lo, hi, threshold) ==
  IF lo > hi THEN acc
  ELSE IF lo = hi THEN VisitToken(acc, visits[lo].raw, visits[lo].ex, threshold)
  ELSE LET mid  == (lo + hi) \div 2
           left == VisitRange(acc, visits, lo, mid, threshold)
       IN IF left.summary.totalWords >= 0
          THEN VisitRange(left, visits, mid + 1, hi, threshold)
          ELSE left

\* Returns the sorted items, and logData.summary with them
extractLearningItems(text, userLevel) ==
  LET threshold == LEVEL_DIFFICULTY_THRESHOLD[userLevel]
      visits    == Visits(text)
      final     == VisitRange([wordStats |-> <<>>, summary |-> EmptySummary],
                              visits, 1, Len(visits), threshold)
      items     == [i \in DOMAIN final.wordStats |-> ToItem(final.wordStats[i], threshold)]
  IN [items |-> SortItems(items), summary |-> final.summary]

----------------------------------------------------------------------------
(* Calls of extractLearningItems on texts put together from fragments *)

MaxPieces == 3

YESTERDAY_LINE == <<"Y","e","s","t","e","r","d","a","y",","," ","a","l","l"," ","m","y"," ","t","r","o","u","b","l","e","s"," ","s","e","e","m","e","d"," ","s","o"," ","f","a","r"," ","a","w","a","y">>

STOP_ONLY_LINE == <<"t","h","e"," ","a"," ","i","s"," ","i","n"," ","o","n">>

Pieces == {
  YESTERDAY_LINE,
  STOP_ONLY_LINE,
  <<"\n","S","h","y"," ","w","i","s","e","!"," ">>,
  <<" ","T","h","e"," ","s","h","y",","," ","R","E","L","A","T","I","O","N","S","H","I","P",".">>,
  <<" ","'"," ","u","2","u"," ","-","-"," ">> }

NoReturn == [items |-> <<>>, summary |-> EmptySummary]

\* the two calls that may be in progress at once
CallIds == {1, 2}

\* a call not made yet
NoFrame ==
  [pc |-> "idle", text |-> <<>>, level |-> "B1", visits |-> <<>>, pos |-> 0,
   acc |-> [wordStats |-> <<>>, summary |-> EmptySummary], result |-> <<>>]

NoFrames == [k \in CallIds |-> NoFrame]

\* no token scored yet
NoScore == [w |-> <<>>, score |-> 0]

ScInit ==
  /\ scRaw = <<>>
  /\ scPieces = 0
  /\ scPc = "editing"
  /\ scReturn = NoScore

\* JavaScript's undefined and null
Undefined == "undefined"

Null == "null"

\* what one run of handleSubmit has called so far; setError counts the calls
\* that pass a message (the handler starts with setError(null))
NoCalls ==
  [extractLearningItems |-> 0, analyzeWithLLM |-> 0, translateText |-> 0,
   setLearningItems |-> 0, setError |-> 0]

\* The App component as mounted: the useState initial values, no run
AppInit ==
  /\ lyrics = <<>>
  /\ level = "B1"
  /\ nativeLang = <<"e","s">>
  /\ customLangCode = <<>>
  /\ analysisMethod = "frequency"
  /\ apiKey = <<>>
  /\ learningItems = <<>>
  /\ isProcessing = FALSE
  /\ isTranslating = FALSE
  /\ error = Null
  /\ pc = "idle"
  /\ runItems = <<>>
  /\ settled = <<>>
  /\ translatedItems = <<>>
  /\ outcome = "none"
  /\ calls = NoCalls

ExInit ==
  /\ exLyrics = <<>>
  /\ exLevel \in Levels
  /\ exPieces = 0
  /\ exPc = "editing"
  /\ exReturn = NoReturn
  /\ frames = NoFrames
  /\ ScInit
  /\ AppInit

\* the caller appends a fragment to the text it will pass
ExType(p) ==
  /\ exPc = "editing"
  /\ exPieces < MaxPieces
  /\ exLyrics' = exLyrics \o p
  /\ exPieces' = exPieces + 1
  /\ UNCHANGED <<exLevel, exPc, exReturn, frames>>
  /\ UNCHANGED scVars
  /\ UNCHANGED appVars

\* extractLearningItems(lyrics, level) is called and returns
ExCall ==
  /\ exPc = "editing"
  /\ exReturn' = extractLearningItems(exLyrics, exLevel)
  /\ exPc' = "returned"
  /\ UNCHANGED <<exLyrics, exLevel, exPieces, frames>>
  /\ UNCHANGED scVars
  /\ UNCHANGED appVars

ExNext ==
  \/ \E p \in Pieces : ExType(p)
  \/ ExCall

SpecExtract == ExInit /\ [][ExNext]_vars

----------------------------------------------------------------------------
(* Calls of estimateDifficultyScore on the canonical form of tokens put    *)
(* together from fragments                                                 *)

MaxWordPieces == 3

WordPieces == {
  <<"u","n">>,
  <<"c","o","n","d","i","t","i","o","n">>,
  <<"a","l","l","y">>,
  <<"o","-","o","-">>,
  <<"s","h","i","p">>,
  <<"f","a","r">>,
  <<"s","e","e","m","e","d">>,
  <<"S","h","y">>,
  <<"!">> }

\* the lyrics get one more fragment of the token
ScType(p) ==
  /\ scPc = "editing"
  /\ scPieces < MaxWordPieces
  /\ scRaw' = scRaw \o p
  /\ scPieces' = scPieces + 1
  /\ UNCHANGED <<scPc, scReturn>>
  /\ UNCHANGED <<exLyrics, exLevel, exPieces, exPc, exReturn, frames>>
  /\ UNCHANGED appVars

\* the loop body reaches const score = estimateDifficultyScore(w) with
\* w = normalizeWord(raw): w is not empty, no stop word and holds no digit
ScCall ==
  LET w == normalizeWord(scRaw) IN
  /\ scPc = "editing"
  /\ w # <<>>
  /\ w \notin STOP_WORDS
  /\ ~ \E i \in DOMAIN w : w[i] \in DIGITS
  /\ scReturn' = [w |-> w, score |-> estimateDifficultyScore(w)]
  /\ scPc' = "scored"
  /\ UNCHANGED <<scRaw, scPieces>>
  /\ UNCHANGED <<exLyrics, exLevel, exPieces, exPc, exReturn, frames>>
  /\ UNCHANGED appVars

ScNext ==
  \/ \E p \in WordPieces : ScType(p)
  \/ ScCall

SpecScore == ExInit /\ [][ScNext]_vars

----------------------------------------------------------------------------
(* Two calls of extractLearningItems on the same arguments, their loop       *)
(* iterations taken in any order, each call with the locals it allocates  *)

MaxCallPieces == 2

\* the fragments the text of the two calls is put together from
CallPieces == Pieces \ {YESTERDAY_LINE}

\* the caller appends a fragment to the text both calls will get
CallType(p) ==
  /\ exPc = "editing"
  /\ exPieces < MaxCallPieces
  /\ exLyrics' = exLyrics \o p
  /\ exPieces' = exPieces + 1
  /\ UNCHANGED <<exLevel, exPc, exReturn, frames>>
  /\ UNCHANGED scVars
  /\ UNCHANGED appVars

\* wordStats and logData as call k shares them with the other call: the
\* first call's Map and log, as if they were allocated once at module level
LocalsOf_ModuleLevel(fs, k) == fs[1].acc

\* wordStats and logData of call k: allocated by the call, const locals
LocalsOf(fs, k) == fs[k].acc

\* call k enters extractLearningItems: splitIntoExamples, new Map, threshold,
\* logData
CallStart(k) ==
  /\ frames[k].pc = "idle"
  /\ exPc' = "calling"
  /\ frames' = [frames EXCEPT ![k] =
                  [pc |-> "running", text |-> exLyrics, level |-> exLevel,
                   visits |-> Visits(exLyrics), pos |-> 0,
                   acc |-> [wordStats |-> <<>>, summary |-> EmptySummary],
                   result |-> <<>>]]
  /\ UNCHANGED <<exLyrics, exLevel, exPieces, exReturn>>
  /\ UNCHANGED scVars
  /\ UNCHANGED appVars

\* call k runs one iteration of its inner loop
CallStep(k) ==
  LET f    == frames[k]
      next == f.pos + 1
  IN /\ f.pc = "running"
     /\ f.pos < Len(f.visits)
     /\ frames' = [frames EXCEPT
                     ![k].pos = next,
                     ![k].acc = VisitToken(LocalsOf(frames, k), f.visits[next].raw,
                                           f.visits[next].ex,
                                           LEVEL_DIFFICULTY_THRESHOLD[f.level])]
     /\ UNCHANGED <<exLyrics, exLevel, exPieces, exPc, exReturn>>
     /\ UNCHANGED scVars
     /\ UNCHANGED appVars

\* call k leaves the loops: the map to LearningItem, the sort, the return
CallReturn(k) ==
  LET f         == frames[k]
      threshold == LEVEL_DIFFICULTY_THRESHOLD[f.level]
      stats     == LocalsOf(frames, k).wordStats
      items     == [i \in DOMAIN stats |-> ToItem(stats[i], threshold)]
  IN /\ f.pc = "running"
     /\ f.pos = Len(f.visits)
     /\ frames' = [frames EXCEPT ![k].pc = "returned",
                                 ![k].result = SortItems(items)]
     /\ UNCHANGED <<exLyrics, exLevel, exPieces, exPc, exReturn>>
     /\ UNCHANGED scVars
     /\ UNCHANGED appVars

CallsNext ==
  \/ \E p \in CallPieces : CallType(p)
  \/ \E k \in CallIds : CallStart(k)
  \/ \E k \in CallIds : CallStep(k)
  \/ \E k \in CallIds : CallReturn(k)

SpecCalls == ExInit /\ [][CallsNext]_vars

----------------------------------------------------------------------------
(* The collaborators of handleSubmit *)

\* how a translateText call can end: the translated text, fetch rejecting, or
\* one of its two throws
TRANSLATE_RESULTS == {"ok", "Failed to fetch", "HTTP 500", "No translation in response"}

\* TranslatedItem with a catch block that swallows the failure: the item is
\* returned as it was
TranslatedItem_Swallow(item, result) ==
  IF result = "ok"
  THEN [item EXCEPT !.translation = "translated"]
  ELSE item

\* the body of the items.map callback: try { translateText } catch { ... }
TranslatedItem(item, result) ==
  IF result = "ok"
  THEN [item EXCEPT !.translation = "translated"]
  ELSE [item EXCEPT !.translationError = "Translation failed: " \o result]

\* the messages analyzeWithLLM rejects with
LLM_FAILURES == {"LLM API error: 401 - Unauthorized", "No response from LLM",
                 "Invalid JSON response from LLM"}

MaxLlmWords == 2

\* the two entries the "words" arrays of the model's replies are made of: a
\* word, and a phrase
LlmWordChoices == <<
  [word |-> <<"a","c","h","e">>, phrase |-> Undefined, difficulty |-> "stretch",
   explanation |-> "a dull pain", example |-> <<"m","y"," ","a","c","h","e">>],
  [word |-> <<"g","o">>, phrase |-> <<"g","o"," ","o","n">>, difficulty |-> "challenging",
   explanation |-> "to continue", example |-> <<"g","o"," ","o","n">>] >>

\* the replies: no word, or up to MaxLlmWords entries, the two in turn
LlmReplies ==
  {[i \in 1..n |-> LlmWordChoices[2 - (i % 2)]] : n \in 0..MaxLlmWords}

\* analyzeWithLLM: the conversion of the parsed words to LearningItems
LlmLearningItems(words) ==
  [index \in DOMAIN words |->
     LET item        == words[index]
         displayText == IF item.phrase # Undefined THEN item.phrase ELSE item.word
     IN [id              |-> <<displayText, index - 1>>,
         word            |-> displayText,
         difficultyScore |-> IF item.difficulty = "comfortable" THEN 30
                             ELSE IF item.difficulty = "stretch" THEN 50 ELSE 70,
         difficultyBand  |-> item.difficulty,
         count           |-> 1,
         example         |-> item.example,
         explanation     |-> item.explanation,
         translation     |-> Undefined,
         translationError |-> Undefined]]

\* the items of extractLearningItems as LearningItems: the optional fields
\* explanation, translation and translationError are not set
FrequencyLearningItems(items) ==
  [i \in DOMAIN items |->
     [id              |-> items[i].id,
      word            |-> items[i].word,
      difficultyScore |-> items[i].difficultyScore,
      difficultyBand  |-> items[i].difficultyBand,
      count           |-> items[i].count,
      example         |-> items[i].example,
      explanation     |-> Undefined,
      translation     |-> Undefined,
      translationError |-> Undefined]]

----------------------------------------------------------------------------
(* The App component *)

SHY_WISE_LINE == <<"S","h","y"," ","w","i","s","e","!">>

\* what the textarea may hold
AppLyrics == {<<>>, <<" ","\n">>, SHY_WISE_LINE}

\* the options of the level select the model picks from: SHY_WISE_LINE gives
\* two items at A1, one at A2 and none from B1 on
AppLevels == {"A1", "A2", "B1"}

\* two of NATIVE_LANGUAGES' codes
NativeCodes == {<<"e","s">>, <<"r","u">>}

CustomCodes == {<<>>, <<" ">>, <<"c","s">>}

ApiKeys == {<<>>, <<"s","k">>}

\* useMemo(() => customLangCode.trim() || nativeLang)
effectiveLangCode ==
  IF Trim(customLangCode) # <<>> THEN Trim(customLangCode) ELSE nativeLang

\* the edits of the form happen between runs: a run reads the values its
\* closure captured when handleSubmit was called
SetLyrics(v) ==
  /\ pc = "idle"
  /\ lyrics' = v
  /\ UNCHANGED <<level, nativeLang, customLangCode, analysisMethod, apiKey>>
  /\ UNCHANGED <<learningItems, isProcessing, isTranslating, error>>
  /\ UNCHANGED runVars
  /\ UNCHANGED exVars

SetLevel(v) ==
  /\ pc = "idle"
  /\ level' = v
  /\ UNCHANGED <<lyrics, nativeLang, customLangCode, analysisMethod, apiKey>>
  /\ UNCHANGED <<learningItems, isProcessing, isTranslating, error>>
  /\ UNCHANGED runVars
  /\ UNCHANGED exVars

SetNativeLang(v) ==
  /\ pc = "idle"
  /\ nativeLang' = v
  /\ UNCHANGED <<lyrics, level, customLangCode, analysisMethod, apiKey>>
  /\ UNCHANGED <<learningItems, isProcessing, isTranslating, error>>
  /\ UNCHANGED runVars
  /\ UNCHANGED exVars

SetCustomLangCode(v) ==
  /\ pc = "idle"
  /\ customLangCode' = v
  /\ UNCHANGED <<lyrics, level, nativeLang, analysisMethod, apiKey>>
  /\ UNCHANGED <<learningItems, isProcessing, isTranslating, error>>
  /\ UNCHANGED runVars
  /\ UNCHANGED exVars

SetAnalysisMethod(v) ==
  /\ pc = "idle"
  /\ analysisMethod' = v
  /\ UNCHANGED <<lyrics, level, nativeLang, customLangCode, apiKey>>
  /\ UNCHANGED <<learningItems, isProcessing, isTranslating, error>>
  /\ UNCHANGED runVars
  /\ UNCHANGED exVars

SetApiKey(v) ==
  /\ pc = "idle"
  /\ analysisMethod = "llm"
  /\ apiKey' = v
  /\ UNCHANGED <<lyrics, level, nativeLang, customLangCode, analysisMethod>>
  /\ UNCHANGED <<learningItems, isProcessing, isTranslating, error>>
  /\ UNCHANGED runVars
  /\ UNCHANGED exVars

\* handleSubmit returning from one of its validation checks
RejectInput(message) ==
  /\ error' = message
  /\ outcome' = "invalid"
  /\ calls' = [NoCalls EXCEPT !.setError = 1]
  /\ UNCHANGED <<learningItems, isProcessing, isTranslating>>
  /\ UNCHANGED <<pc, runItems, settled, translatedItems>>

\* AfterAnalysis without setIsProcessing(false) ahead of setIsTranslating(true)
AfterAnalysis_KeepsProcessing(items, done) ==
  /\ learningItems' = items
  /\ runItems' = items
  /\ settled' = [i \in DOMAIN items |-> "pending"]
  /\ translatedItems' = items
  /\ IF items = <<>>
     THEN /\ error' = (IF analysisMethod = "llm"
                       THEN "No learning items found. Try adjusting your level or check the lyrics."
                       ELSE "No learning items found. The song might be too simple for your level.")
          /\ isProcessing' = FALSE
          /\ isTranslating' = FALSE
          /\ pc' = "idle"
          /\ outcome' = "empty"
          /\ calls' = [done EXCEPT !.setLearningItems = @ + 1, !.setError = @ + 1]
     ELSE /\ error' = Null
          /\ isProcessing' = (pc = "analyzing")
          /\ isTranslating' = TRUE
          /\ pc' = "translating"
          /\ outcome' = "running"
          /\ calls' = [done EXCEPT !.setLearningItems = @ + 1,
                                   !.translateText = @ + Len(items)]

\* handleSubmit from setLearningItems(items) on: the empty result with its
\* guidance message and the finally block, or the start of the translations
\* (every translateText call is issued before the handler awaits Promise.all)
AfterAnalysis(items, done) ==
  /\ learningItems' = items
  /\ runItems' = items
  /\ settled' = [i \in DOMAIN items |-> "pending"]
  /\ translatedItems' = items
  /\ isProcessing' = FALSE
  /\ IF items = <<>>
     THEN /\ error' = (IF analysisMethod = "llm"
                       THEN "No learning items found. Try adjusting your level or check the lyrics."
                       ELSE "No learning items found. The song might be too simple for your level.")
          /\ isTranslating' = FALSE
          /\ pc' = "idle"
          /\ outcome' = "empty"
          /\ calls' = [done EXCEPT !.setLearningItems = @ + 1, !.setError = @ + 1]
     ELSE /\ error' = Null
          /\ isTranslating' = TRUE
          /\ pc' = "translating"
          /\ outcome' = "running"
          /\ calls' = [done EXCEPT !.setLearningItems = @ + 1,
                                   !.translateText = @ + Len(items)]

\* handleSubmit testing !lyrics where the code tests !lyrics.trim()
handleSubmit_NoTrim ==
  /\ pc = "idle"
  /\ ~isProcessing /\ ~isTranslating
  /\ IF lyrics = <<>>
     THEN RejectInput("Please paste the song lyrics first.")
     ELSE IF effectiveLangCode = <<>>
     THEN RejectInput("Please choose or enter your native language code.")
     ELSE IF analysisMethod = "llm" /\ Trim(apiKey) = <<>>
     THEN RejectInput("Please enter your OpenAI API key for LLM analysis.")
     ELSE IF analysisMethod = "llm"
     THEN /\ isProcessing' = TRUE
          /\ isTranslating' = FALSE
          /\ error' = Null
          /\ pc' = "analyzing"
          /\ outcome' = "running"
          /\ calls' = [NoCalls EXCEPT !.analyzeWithLLM = 1]
          /\ runItems' = <<>>
          /\ settled' = <<>>
          /\ translatedItems' = <<>>
          /\ UNCHANGED learningItems
     ELSE AfterAnalysis(FrequencyLearningItems(extractLearningItems(lyrics, level).items),
                        [NoCalls EXCEPT !.extractLearningItems = 1])
  /\ UNCHANGED formVars
  /\ UNCHANGED exVars

\* handleSubmit from the submit event to its first await (or to its return).
\* The submit button is disabled while isProcessing or isTranslating.
handleSubmit ==
  /\ pc = "idle"
  /\ ~isProcessing /\ ~isTranslating
  /\ IF Trim(lyrics) = <<>>
     THEN RejectInput("Please paste the song lyrics first.")
     ELSE IF effectiveLangCode = <<>>
     THEN RejectInput("Please choose or enter your native language code.")
     ELSE IF analysisMethod = "llm" /\ Trim(apiKey) = <<>>
     THEN RejectInput("Please enter your OpenAI API key for LLM analysis.")
     ELSE IF analysisMethod = "llm"
     THEN /\ isProcessing' = TRUE
          /\ isTranslating' = FALSE
          /\ error' = Null
          /\ pc' = "analyzing"
          /\ outcome' = "running"
          /\ calls' = [NoCalls EXCEPT !.analyzeWithLLM = 1]
          /\ runItems' = <<>>
          /\ settled' = <<>>
          /\ translatedItems' = <<>>
          /\ UNCHANGED learningItems
     ELSE AfterAnalysis(FrequencyLearningItems(extractLearningItems(lyrics, level).items),
                        [NoCalls EXCEPT !.extractLearningItems = 1])
  /\ UNCHANGED formVars
  /\ UNCHANGED exVars

\* analyzeWithLLM resolves with the items of a reply
LlmResolve(words) ==
  /\ pc = "analyzing"
  /\ AfterAnalysis(LlmLearningItems(words), calls)
  /\ UNCHANGED formVars
  /\ UNCHANGED exVars

\* LlmReject with a catch block that also clears the list
LlmReject_ClearsItems(message) ==
  /\ pc = "analyzing"
  /\ error' = message
  /\ learningItems' = <<>>
  /\ isProcessing' = FALSE
  /\ isTranslating' = FALSE
  /\ pc' = "idle"
  /\ outcome' = "failed"
  /\ calls' = [calls EXCEPT !.setError = @ + 1, !.setLearningItems = @ + 1]
  /\ UNCHANGED <<runItems, settled, translatedItems>>
  /\ UNCHANGED formVars
  /\ UNCHANGED exVars

\* analyzeWithLLM rejects: the catch block, then the finally block
LlmReject(message) ==
  /\ pc = "analyzing"
  /\ error' = message
  /\ isProcessing' = FALSE
  /\ isTranslating' = FALSE
  /\ pc' = "idle"
  /\ outcome' = "failed"
  /\ calls' = [calls EXCEPT !.setError = @ + 1]
  /\ UNCHANGED <<learningItems, runItems, settled, translatedItems>>
  /\ UNCHANGED formVars
  /\ UNCHANGED exVars

\* the translateText call of item i ends, in any order among the pending ones
TranslateSettle(i, result) ==
  /\ pc = "translating"
  /\ settled[i] = "pending"
  /\ settled' = [settled EXCEPT ![i] = result]
  /\ translatedItems' = [translatedItems EXCEPT ![i] = TranslatedItem(runItems[i], result)]
  /\ UNCHANGED <<learningItems, isProcessing, isTranslating, error>>
  /\ UNCHANGED <<pc, runItems, outcome, calls>>
  /\ UNCHANGED formVars
  /\ UNCHANGED exVars

\* Promise.all resolves: setLearningItems(translatedItems), then the finally block
PromiseAllResolve ==
  /\ pc = "translating"
  /\ \A i \in DOMAIN settled : settled[i] # "pending"
  /\ learningItems' = translatedItems
  /\ isProcessing' = FALSE
  /\ isTranslating' = FALSE
  /\ pc' = "idle"
  /\ outcome' = "translated"
  /\ calls' = [calls EXCEPT !.setLearningItems = @ + 1]
  /\ UNCHANGED <<error, runItems, settled, translatedItems>>
  /\ UNCHANGED formVars
  /\ UNCHANGED exVars

Init ==
  /\ AppInit
  /\ exLyrics = <<>>
  /\ exLevel = "B1"
  /\ exPieces = 0
  /\ exPc = "editing"
  /\ exReturn = NoReturn
  /\ frames = NoFrames
  /\ ScInit

Next ==
  \/ \E v \in AppLyrics : SetLyrics(v)
  \/ \E v \in AppLevels : SetLevel(v)
  \/ \E v \in NativeCodes : SetNativeLang(v)
  \/ \E v \in CustomCodes : SetCustomLangCode(v)
  \/ \E v \in {"frequency", "llm"} : SetAnalysisMethod(v)
  \/ \E v \in ApiKeys : SetApiKey(v)
  \/ handleSubmit
  \/ \E words \in LlmReplies : LlmResolve(words)
  \/ \E message \in LLM_FAILURES : LlmReject(message)
  \/ \E i \in DOMAIN settled, result \in TRANSLATE_RESULTS : TranslateSettle(i, result)
  \/ PromiseAllResolve

Spec == Init /\ [][Next]_vars

\* the awaited analyzeWithLLM call resolves or rejects
LlmSettles ==
  \/ \E words \in LlmReplies : LlmResolve(words)
  \/ \E message \in LLM_FAILURES : LlmReject(message)

\* a pending translateText call resolves or rejects
TranslateSettles ==
  \E i \in DOMAIN settled, result \in TRANSLATE_RESULTS : TranslateSettle(i, result)

\* every collaborator call resolves or rejects, and the continuation of the
\* await runs
FairSpec ==
  /\ Spec
  /\ WF_vars(LlmSettles)
  /\ WF_vars(TranslateSettles)
  /\ WF_vars(PromiseAllResolve)

----------------------------------------------------------------------------
(* Properties of extractLearningItems, checked under SpecExtract *)

Returned == exPc = "returned"

ExItems == exReturn.items

ExThreshold == LEVEL_DIFFICULTY_THRESHOLD[exLevel]

HasDigit(w) == \E i \in DOMAIN w : w[i] \in DIGITS

HasLetter(raw) == \E i \in DOMAIN raw : raw[i] \in LowerSet \/ raw[i] \in UpperSet

\* the occurrences of word w among visits that pass every filter at threshold t
PassingOccurrences(visits, w, t) ==
  {k \in DOMAIN visits :
     /\ normalizeWord(visits[k].raw) = w
     /\ w # <<>>
     /\ w \notin STOP_WORDS
     /\ ~HasDigit(w)
     /\ estimateDifficultyScore(w) > 10 * t}

\* C1: no returned item's word is a stop word; every token whose normalized
\* form is a stop word is counted as discarded 'stop word'; the text
\* "the a is in on" gives an empty result at every level.
C1_StopWordsExcluded ==
  LET ExVisits == Visits(exLyrics) IN
  Returned =>
    /\ \A i \in DOMAIN ExItems : ExItems[i].word \notin STOP_WORDS
    /\ exReturn.summary.stopWords =
         Cardinality({k \in DOMAIN ExVisits : normalizeWord(ExVisits[k].raw) \in STOP_WORDS})
    /\ (exLyrics = STOP_ONLY_LINE => ExItems = <<>> /\ exReturn.summary.stopWords = 5)

\* a call that met a stop word written with a capital and still returned items
C1_Witness ==
  LET ExVisits == Visits(exLyrics) IN
  /\ Returned
  /\ ExItems # <<>>
  /\ \E k \in DOMAIN ExVisits :
       /\ ExVisits[k].raw \notin STOP_WORDS
       /\ normalizeWord(ExVisits[k].raw) \in STOP_WORDS

\* C2: every item's count is the number of filter-passing tokens of the whole
\* text that normalize to its word, its example is the example unit of the
\* first of them, and its score is the score of the word.
C2_CountAndExample ==
  LET ExVisits == Visits(exLyrics) IN
  Returned =>
    \A i \in DOMAIN ExItems :
      LET it  == ExItems[i]
          occ == PassingOccurrences(ExVisits, it.word, ExThreshold)
      IN /\ occ # {}
         /\ it.count = Cardinality(occ)
         /\ it.example = ExVisits[CHOOSE k \in occ : \A m \in occ : k <= m].ex
         /\ it.difficultyScore = estimateDifficultyScore(it.word)

\* an item seen more than once, with a later occurrence in another example unit
C2_Witness ==
  LET ExVisits == Visits(exLyrics) IN
  /\ Returned
  /\ \E i \in DOMAIN ExItems :
       /\ ExItems[i].count >= 2
       /\ \E k \in PassingOccurrences(ExVisits, ExItems[i].word, ExThreshold) :
            ExVisits[k].ex # ExItems[i].example

\* C3: a higher score goes first; among equal scores a higher count goes first.
C3_Ranking ==
  Returned =>
    \A i, j \in DOMAIN ExItems :
      /\ ExItems[i].difficultyScore > ExItems[j].difficultyScore => i < j
      /\ (/\ ExItems[i].difficultyScore = ExItems[j].difficultyScore
          /\ ExItems[i].count > ExItems[j].count) => i < j

\* a result with a tie on score broken by count, and two different scores
C3_Witness ==
  /\ Returned
  /\ \E i, j \in DOMAIN ExItems :
       /\ ExItems[i].difficultyScore = ExItems[j].difficultyScore
       /\ ExItems[i].count > ExItems[j].count
  /\ \E i, j \in DOMAIN ExItems : ExItems[i].difficultyScore > ExItems[j].difficultyScore

\* what threshold monotonicity compares of an item
ItemCore(it) ==
  [word |-> it.word, difficultyScore |-> it.difficultyScore, count |-> it.count,
   example |-> it.example]

ItemCores(items) == {ItemCore(items[i]) : i \in DOMAIN items}

\* C4: for the same text, the items of a level are exactly the items of any
\* level with a lower threshold whose score exceeds the higher threshold,
\* with the same word, score, count and example.
C4_ThresholdMonotone ==
  Returned =>
    \A lo \in Levels :
      LEVEL_DIFFICULTY_THRESHOLD[lo] < ExThreshold =>
        LET low == extractLearningItems(exLyrics, lo).items
        IN ItemCores(ExItems) =
             {c \in ItemCores(low) : c.difficultyScore > 10 * ExThreshold}

\* a non-empty result at a level where a lower level returns more
C4_Witness ==
  /\ Returned
  /\ ExItems # <<>>
  /\ \E lo \in Levels :
       /\ LEVEL_DIFFICULTY_THRESHOLD[lo] < ExThreshold
       /\ Len(extractLearningItems(exLyrics, lo).items) > Len(ExItems)

WordsOf(items) == {items[i].word : i \in DOMAIN items}

YesterdayAtB1 == Returned /\ exLyrics = YESTERDAY_LINE /\ exLevel = "B1"

\* C5 as stated: at B1 the Yesterday line loses all, my and so as stop words,
\* has the other five words scored, and returns yesterday and troubles.
C5_AsStated ==
  YesterdayAtB1 =>
    /\ exReturn.summary.stopWords = 3
    /\ exReturn.summary.tooEasy + exReturn.summary.included = 5
    /\ <<"y","e","s","t","e","r","d","a","y">> \in WordsOf(ExItems)
    /\ <<"t","r","o","u","b","l","e","s">> \in WordsOf(ExItems)

\* C5 as amended: at B1 the Yesterday line loses my and so as stop words (all
\* is not in STOP_WORDS), has yesterday, all, troubles, seemed, far and away
\* scored, none above the threshold 4, and returns the empty list.
C5_YesterdayAtB1Empty ==
  LET ExVisits == Visits(exLyrics) IN
  YesterdayAtB1 =>
    /\ exReturn.summary.totalWords = 8
    /\ exReturn.summary.stopWords = 2
    /\ exReturn.summary.tooEasy = 6
    /\ exReturn.summary.included = 0
    /\ ExItems = <<>>
    /\ \A k \in DOMAIN ExVisits :
         normalizeWord(ExVisits[k].raw) \notin STOP_WORDS =>
           estimateDifficultyScore(normalizeWord(ExVisits[k].raw)) <= 40

C5_Witness == YesterdayAtB1

\* C6 as stated: a raw token without a letter normalizes to the empty string,
\* is counted 'empty', and no item comes from it.
C6_NoLetterTokenIsEmpty ==
  LET ExVisits == Visits(exLyrics) IN
  Returned =>
    /\ \A k \in DOMAIN ExVisits :
         ~HasLetter(ExVisits[k].raw) =>
           /\ normalizeWord(ExVisits[k].raw) = <<>>
           /\ normalizeWord(ExVisits[k].raw) \notin WordsOf(ExItems)
    /\ exReturn.summary.empty =
         Cardinality({k \in DOMAIN ExVisits : ~HasLetter(ExVisits[k].raw)})

\* C7: every item's band is 'comfortable' for score <= t, 'stretch' for
\* t < score <= t + 2 and 'challenging' above, t the level's threshold.
C7_BandOfScore ==
  Returned =>
    \A i \in DOMAIN ExItems :
      LET score == ExItems[i].difficultyScore
          t     == 10 * ExThreshold
      IN ExItems[i].difficultyBand =
           (IF score <= t THEN "comfortable"
            ELSE IF t < score /\ score <= t + 20 THEN "stretch"
            ELSE "challenging")

\* a result with an item on the upper edge of 'stretch' and a 'challenging' one
C7_Witness ==
  /\ Returned
  /\ \E i \in DOMAIN ExItems :
       /\ ExItems[i].difficultyBand = "stretch"
       /\ ExItems[i].difficultyScore = 10 * (ExThreshold + 2)
  /\ \E i \in DOMAIN ExItems : ExItems[i].difficultyBand = "challenging"

----------------------------------------------------------------------------
(* Properties of handleSubmit, checked under Spec *)

\* item without what the translation phase adds
Untranslated(item) ==
  [item EXCEPT !.translation = Undefined, !.translationError = Undefined]

\* C8: when a run ends through the translation phase, learningItems is the
\* extracted list, item for item and in order; an item whose translateText
\* call succeeded carries translation and no translationError, one whose call
\* failed carries translationError and no translation; the error state is
\* not set.
C8_TranslationPerItem ==
  outcome = "translated" =>
    /\ Len(learningItems) = Len(runItems)
    /\ Len(settled) = Len(runItems)
    /\ \A i \in DOMAIN runItems :
         /\ Untranslated(learningItems[i]) = Untranslated(runItems[i])
         /\ settled[i] = "ok" =>
              /\ learningItems[i].translation # Undefined
              /\ learningItems[i].translationError = Undefined
         /\ settled[i] # "ok" =>
              /\ settled[i] \in {"Failed to fetch", "HTTP 500", "No translation in response"}
              /\ learningItems[i].translationError # Undefined
              /\ learningItems[i].translation = Undefined
    /\ error = Null
    /\ calls.setError = 0
    /\ calls.translateText = Len(runItems)

\* a finished run in which an earlier item's call failed and a later one's
\* succeeded
C8_Witness ==
  /\ outcome = "translated"
  /\ \E i, j \in DOMAIN settled :
       /\ i < j
       /\ settled[i] = "HTTP 500"
       /\ settled[j] = "ok"

\* C9: the step in which analyzeWithLLM's rejection is handled reports one
\* error, leaves learningItems as it was, and the run has issued no
\* translation request and ends.
C9_ExtractionFailureAllOrNothing ==
  [][(pc = "analyzing" /\ outcome' = "failed") =>
       /\ error' \in LLM_FAILURES
       /\ learningItems' = learningItems
       /\ calls'.analyzeWithLLM = 1
       /\ calls'.setError = 1
       /\ calls'.setLearningItems = 0
       /\ calls'.translateText = 0
       /\ settled' = <<>>
       /\ pc' = "idle"
       /\ ~isProcessing' /\ ~isTranslating']_vars

\* a failed LLM run that left the items of an earlier run on display
C9_Witness ==
  /\ outcome = "failed"
  /\ error \in LLM_FAILURES
  /\ learningItems # <<>>

\* C10: handleSubmit called with blank lyrics, or with an empty effective
\* language code, sets a validation message and returns: no collaborator is
\* called, learningItems, isProcessing and isTranslating stay as they were.
C10_ValidationFirst ==
  [][((Trim(lyrics) = <<>> \/ effectiveLangCode = <<>>) /\ handleSubmit) =>
       /\ error' \in {"Please paste the song lyrics first.",
                      "Please choose or enter your native language code."}
       /\ UNCHANGED <<learningItems, isProcessing, isTranslating>>
       /\ calls'.extractLearningItems = 0
       /\ calls'.analyzeWithLLM = 0
       /\ calls'.translateText = 0
       /\ calls'.setLearningItems = 0
       /\ pc' = "idle"]_vars

\* whitespace-only lyrics were submitted while an earlier run's items are shown
C10_Witness ==
  /\ outcome = "invalid"
  /\ lyrics = <<" ","\n">>
  /\ error = "Please paste the song lyrics first."
  /\ learningItems # <<>>
  /\ ~isProcessing /\ ~isTranslating

----------------------------------------------------------------------------
(* Properties of repeated calls of extractLearningItems, checked under     *)
(* SpecCalls                                                               *)

\* C11: a call of extractLearningItems that has returned, whether the other
\* call ran before it, after it or in between its iterations, returned what
\* one call on its own returns for the same lyrics and level: the same
\* items in the same order with the same scores, counts and examples; so
\* two calls that have both returned agree.
C11_CallsIndependent ==
  LET alone == extractLearningItems(exLyrics, exLevel) IN
  /\ \A k \in CallIds :
       frames[k].pc = "returned" =>
         /\ frames[k].text = exLyrics
         /\ frames[k].level = exLevel
         /\ frames[k].result = alone.items
         /\ frames[k].acc.summary = alone.summary
  /\ (\A k \in CallIds : frames[k].pc = "returned") =>
       frames[1].result = frames[2].result

\* both calls have returned a list in which a word counts twice
C11_Witness ==
  /\ \A k \in CallIds : frames[k].pc = "returned"
  /\ \E i \in DOMAIN frames[2].result : frames[2].result[i].count = 2
  /\ frames[1].result = frames[2].result

----------------------------------------------------------------------------
(* Properties of estimateDifficultyScore, checked under SpecScore *)

Scored == scPc = "scored"

\* the number of maximal runs of a/e/i/o/u/y in w
VowelRuns(w) ==
  Cardinality({i \in DOMAIN w : /\ w[i] \in VOWELS
                                /\ (i = 1 \/ w[i-1] \notin VOWELS)})

\* the sum of increments for w, in tenths, given its syllable count
ScoreSum(w, syllables) ==
    10 * (5 - getWordFrequencyTier(w))
  + (IF Len(w) >= 10 THEN 10 ELSE 0)
  + (IF Len(w) >= 12 THEN 10 ELSE 0)
  + (IF syllables >= 4 THEN 10 ELSE 0)
  + (IF syllables >= 5 THEN 10 ELSE 0)
  + (IF \E s \in SUFFIXES :
          /\ Len(s) <= Len(w)
          /\ SubSeq(w, Len(w) - Len(s) + 1, Len(w)) = s
     THEN 10 ELSE 0)
  + (IF \E c \in CLUSTERS : \E i \in 1..(Len(w) - Len(c) + 1) :
          SubSeq(w, i, i + Len(c) - 1) = c
     THEN 5 ELSE 0)

UNCONDITIONALLY ==
  <<"u","n","c","o","n","d","i","t","i","o","n","a","l","l","y">>

\* C12: the score of a canonical word w is (5 - tier(w)) plus the length,
\* syllable, suffix and cluster increments, the syllables being the maximal
\* runs of a/e/i/o/u/y of w; "unconditionally" gets the two length and the
\* two syllable increments and no suffix increment.
C12_ScoreIsSumOfIncrements ==
  Scored =>
    /\ getWordFrequencyTier(scReturn.w) \in 1..5
    /\ scReturn.score = ScoreSum(scReturn.w, VowelRuns(scReturn.w))
    /\ scReturn.w = UNCONDITIONALLY =>
         scReturn.score = 10 * (5 - getWordFrequencyTier(UNCONDITIONALLY)) + 40

\* the same sum for the words made of letters only, and for every word with
\* the runs counted as estimateSyllables counts them: in the word with
\* everything but its letters taken out
C12_LetterRuns ==
  Scored =>
    LET w       == scReturn.w
        letters == SelectSeq(w, LAMBDA c : c \in LowerSet)
    IN /\ scReturn.score = ScoreSum(w, VowelRuns(letters))
       /\ letters = w => scReturn.score = ScoreSum(w, VowelRuns(w))
       /\ w = UNCONDITIONALLY =>
            scReturn.score = 10 * (5 - getWordFrequencyTier(UNCONDITIONALLY)) + 40

\* "unconditionally" has been scored
C12_Witness ==
  /\ Scored
  /\ scReturn.w = UNCONDITIONALLY
  /\ scReturn.score = 40

----------------------------------------------------------------------------
(* Properties of the returned scores, checked under SpecExtract *)

\* w gets one of the length, syllable, suffix or cluster increments
HasBonus(w) ==
  ScoreSum(w, estimateSyllables(w)) > 10 * (5 - getWordFrequencyTier(w))

\* C13: every returned item scores strictly above the threshold of the
\* level, so its band is 'stretch' or 'challenging'; the base 5 - tier is at
\* most 4, so at B1, B2, C1 and C2 every returned word has a length,
\* syllable, suffix or cluster increment.
C13_AboveThreshold ==
  Returned =>
    \A i \in DOMAIN ExItems :
      LET it == ExItems[i] IN
      /\ it.difficultyScore > 10 * ExThreshold
      /\ it.difficultyBand \in {"stretch", "challenging"}
      /\ 10 * (5 - getWordFrequencyTier(it.word)) <= 40
      /\ exLevel \in {"B1", "B2", "C1", "C2"} => HasBonus(it.word)

\* a call at B1 or above that returned a word, every returned word with an
\* increment, and discarded others as too easy
C13_Witness ==
  /\ Returned
  /\ exLevel \in {"B1", "B2", "C1", "C2"}
  /\ ExItems # <<>>
  /\ \A i \in DOMAIN ExItems : HasBonus(ExItems[i].word)
  /\ exReturn.summary.tooEasy > 0

\* a call below B1 that returned a word with no increment
C13_NoBonusBelowB1 ==
  /\ Returned
  /\ exLevel \in {"A1", "A2"}
  /\ \E i \in DOMAIN ExItems : ~HasBonus(ExItems[i].word)

----------------------------------------------------------------------------
(* Properties of the phases of a handleSubmit run, checked under FairSpec *)

GUIDANCE ==
  {"No learning items found. Try adjusting your level or check the lyrics.",
   "No learning items found. The song might be too simple for your level."}

\* C14: isProcessing and isTranslating are never both true; isTranslating
\* turns true only in a step after which isProcessing is false and the
\* run's extracted list, not empty, is in learningItems; a run whose
\* extraction came back empty has set the guidance message and started no
\* translation; and a run in progress leads to both flags being false.
C14_PhaseOrder ==
  /\ [](~(isProcessing /\ isTranslating))
  /\ [][(~isTranslating /\ isTranslating') =>
          /\ ~isProcessing'
          /\ runItems' # <<>>
          /\ learningItems' = runItems'
          /\ calls'.extractLearningItems + calls'.analyzeWithLLM = 1]_vars
  /\ [][(isProcessing /\ ~isProcessing') =>
          (isTranslating' \/ pc' = "idle")]_vars
  /\ [](outcome = "empty" =>
          /\ error \in GUIDANCE
          /\ runItems = <<>>
          /\ calls.translateText = 0
          /\ pc = "idle" /\ ~isProcessing /\ ~isTranslating)
  /\ [](pc = "analyzing" => isProcessing /\ ~isTranslating)
  /\ [](pc = "translating" => isTranslating /\ ~isProcessing)
  /\ ((isProcessing \/ isTranslating) ~> (pc = "idle" /\ ~isProcessing /\ ~isTranslating))

\* a run through analyzeWithLLM and the translations has ended, one of the
\* translations having failed
C14_Witness ==
  /\ outcome = "translated"
  /\ calls.analyzeWithLLM = 1
  /\ \E i \in DOMAIN settled : settled[i] # "ok"
  /\ pc = "idle" /\ ~isProcessing /\ ~isTranslating

====
